---- MODULE Spec2Model ----
(***************************************************************************)
(* zero_v: collections of objects implementing one trait, resolved without *)
(* dynamic dispatch.  The module models                                    *)
(*   - the structural list (src/src/composite.rs): unit type, Node,        *)
(*     Composite, and the compose!/compose_nodes! macros;                  *)
(*   - the code that #[zero_v(trait_types)] emits                          *)
(*     (src/zero_v_gen/src/trait_types.rs): the level trait's two impls,   *)
(*     the iteration trait and the per-method iterator, run over the       *)
(*     IntOp fixture of src/zero_v_gen/tests/int_op_test.rs;               *)
(*   - the identifier derivation (src/zero_v_gen/src/idents.rs).           *)
(***************************************************************************)
EXTENDS Integers, Sequences, FiniteSets, TLC

VARIABLES
    elems,            \* the values given to compose!, in order
    composite,        \* the Composite built from them
    overflow_checks,  \* TRUE: arithmetic overflow panics (debug build); FALSE: it wraps
    iters,            \* the iterator each caller holds, or NoIter
    returned,         \* what each iterator's next() calls have returned, in order
    at_level_call,    \* the latest direct <m>_at_level call and its result, or NoCall
    trait_type,       \* the trait declaration handed to the generator
    emitted,          \* what each generator invocation has emitted, in order
    scope,            \* the identifiers already declared where the output is placed
    fn_item,          \* the function under #[zero_v(fn_generics, X as P)] or #[composed(X as P)]
    augmented,        \* what each invocation of that attribute has returned, in order
    history,          \* per caller: the iter call it made and what each next() ran
    nest_iters,       \* per caller: its nest-level iterator (src/test.rs), or NoIter
    nest_returned     \* what each nest-level iterator's next() calls have returned

vars == <<elems, composite, overflow_checks, iters, returned, at_level_call,
          trait_type, emitted, scope, fn_item, augmented, history,
          nest_iters, nest_returned>>

(***************************************************************************)
(* Bounds of the model.                                                    *)
(***************************************************************************)
\* longest list given to compose!
MaxDepth == 3
\* width of usize in bits, scaled down so that the whole index range is explored
UsizeBits == 2
\* next() calls made on one iterator
MaxAdvances == 6
\* items in the trait handed to the generator
MaxItems == 2
\* invocations of the generator on one input
MaxGenerations == 2

UsizeMax == 2^UsizeBits - 1
Usize == 0..UsizeMax

(***************************************************************************)
(* Option<T>, and a panic as the third outcome of a call.                  *)
(***************************************************************************)
None == [kind |-> "None"]
Some(v) == [kind |-> "Some", val |-> v]
Panic == [kind |-> "Panic"]

(***************************************************************************)
(* usize arithmetic.  An overflowing + or - panics when the build has      *)
(* overflow checks and wraps modulo 2^UsizeBits when it has not.           *)
(***************************************************************************)
usize_sub(a, b) ==
    IF a >= b THEN [ok |-> TRUE, val |-> a - b]
    ELSE IF overflow_checks THEN [ok |-> FALSE, val |-> 0]
    ELSE [ok |-> TRUE, val |-> a - b + UsizeMax + 1]

usize_add(a, b) ==
    IF a + b <= UsizeMax THEN [ok |-> TRUE, val |-> a + b]
    ELSE IF overflow_checks THEN [ok |-> FALSE, val |-> 0]
    ELSE [ok |-> TRUE, val |-> (a + b) % (UsizeMax + 1)]

(***************************************************************************)
(* The IntOp fixture: four element types, two methods.                     *)
(***************************************************************************)
Adder(value) == [op |-> "Adder", value |-> value]
Multiplier(value) == [op |-> "Multiplier", value |-> value]
RShifter(value) == [op |-> "RShifter", value |-> value]
LShifter(value) == [op |-> "LShifter", value |-> value]

shl(x, n) == x * 2^n
shr(x, n) == x \div 2^n

execute_1(self, input) ==
    CASE self.op = "Adder" -> input + self.value
      [] self.op = "Multiplier" -> input * self.value
      [] self.op = "RShifter" -> shr(input, self.value)
      [] self.op = "LShifter" -> shl(input, self.value)

execute_2(self, input_1, input_2) ==
    CASE self.op = "Adder" -> input_1 + input_2 + self.value
      [] self.op = "Multiplier" -> input_1 * input_2 * self.value
      [] self.op = "RShifter" -> shr(shr(input_1, input_2), self.value)
      [] self.op = "LShifter" -> shl(shl(input_1, input_2), self.value)

\* the methods of trait IntOp, in declaration order
trait_method_idents == <<"execute_1", "execute_2">>
Methods == {trait_method_idents[k] : k \in DOMAIN trait_method_idents}

\* self.data.<m>(args): the original trait method, statically dispatched
call_method(data, m, args) ==
    CASE m = "execute_1" -> execute_1(data, args[1])
      [] m = "execute_2" -> execute_2(data, args[1], args[2])

\* the elements lists are composed of, and the argument tuples the methods are given
Elems == {Adder(2), LShifter(1)}
ArgTuples(m) ==
    CASE m = "execute_1" -> {<<20>>, <<10>>}
      [] m = "execute_2" -> {<<9, 10>>, <<10, 9>>}

(***************************************************************************)
(* The structural list.                                                    *)
(***************************************************************************)
Unit == [tag |-> "Unit"]
Node_new(data, next) == [tag |-> "Node", data |-> data, next |-> next]
Node_base(data) == Node_new(data, Unit)
Composite_new(head) == [head |-> head]

\* the list nested from the last value outwards
RECURSIVE compose_nodes_last_outermost(_)
compose_nodes_last_outermost(vals) ==
    IF Len(vals) = 0 THEN Unit
    ELSE IF Len(vals) = 1 THEN Node_base(vals[1])
    ELSE Node_new(vals[Len(vals)], compose_nodes_last_outermost(SubSeq(vals, 1, Len(vals) - 1)))

RECURSIVE compose_nodes(_)
compose_nodes(vals) ==
    IF Len(vals) = 0 THEN Unit
    ELSE IF Len(vals) = 1 THEN Node_base(vals[1])
    ELSE Node_new(Head(vals), compose_nodes(Tail(vals)))

compose(vals) == Composite_new(compose_nodes(vals))

\* NextNode: implemented for () and for a Node whose next implements NextNode
RECURSIVE is_NextNode(_)
is_NextNode(x) ==
    IF "tag" \notin DOMAIN x THEN FALSE
    ELSE IF x = Unit THEN TRUE
    ELSE x.tag = "Node" /\ is_NextNode(x.next)

\* the nest level of a Node counted without the node itself
RECURSIVE nest_level_of_next(_)
nest_level_of_next(x) ==
    IF x = Unit THEN 0 ELSE nest_level_of_next(x.next)

\* NestLevel: 0 for (), self.next.nest_level() + 1 for a Node; a list's depth is
\* the depth of its type, far below usize::MAX
RECURSIVE nest_level(_)
nest_level(x) ==
    IF x = Unit THEN 0 ELSE nest_level(x.next) + 1

(***************************************************************************)
(* The level trait's two impls: () and Node<TraitType, NodeType>.          *)
(***************************************************************************)
\* a unit impl that answers with a value
unit_at_level_present(self, m, args, level) == Some(args[1])

unit_at_level(self, m, args, level) == None

RECURSIVE at_level(_, _, _, _)

\* a Node impl that hands the level on undiminished
node_at_level_same_level(self, m, args, level) ==
    IF level # 0 THEN at_level(self.next, m, args, level)
    ELSE Some(call_method(self.data, m, args))

\* a Node impl that computes level - 1 before it tests the level
node_at_level_eager_sub(self, m, args, level) ==
    LET l == usize_sub(level, 1)
    IN IF ~l.ok THEN Panic
       ELSE IF level # 0 THEN at_level(self.next, m, args, l.val)
       ELSE Some(call_method(self.data, m, args))

node_at_level(self, m, args, level) ==
    IF level # 0
    THEN LET l == usize_sub(level, 1)
         IN IF l.ok THEN at_level(self.next, m, args, l.val) ELSE Panic
    ELSE Some(call_method(self.data, m, args))

\* static dispatch on the type of self
at_level(self, m, args, level) ==
    IF self.tag = "Unit" THEN unit_at_level(self, m, args, level)
    ELSE node_at_level(self, m, args, level)

(***************************************************************************)
(* The same two impls, by what a call runs: one step per level method      *)
(* entered, with the value it is entered on, the level it is given and     *)
(* whether it invokes the trait's method on its data.                      *)
(***************************************************************************)
step(self, level, args, invokes) ==
    [self |-> self, level |-> level, args |-> args, invokes |-> invokes]

unit_at_level_steps(self, m, args, level) == <<step(self, level, args, FALSE)>>

RECURSIVE at_level_steps(_, _, _, _)

\* a Node impl that invokes its data and goes on to its next all the same
node_at_level_steps_past_match(self, m, args, level) ==
    <<step(self, level, args, level = 0)>>
    \o at_level_steps(self.next, m, args, IF level # 0 THEN level - 1 ELSE 0)

node_at_level_steps(self, m, args, level) ==
    <<step(self, level, args, level = 0)>>
    \o (IF level # 0
        THEN LET l == usize_sub(level, 1)
             IN IF l.ok THEN at_level_steps(self.next, m, args, l.val) ELSE <<>>
        ELSE <<>>)

at_level_steps(self, m, args, level) ==
    IF self.tag = "Unit" THEN unit_at_level_steps(self, m, args, level)
    ELSE node_at_level_steps(self, m, args, level)

(***************************************************************************)
(* The iterator of one method: CompositeIterator<M>.                       *)
(*   pc = "idle"     between next() calls                                  *)
(*   pc = "called"   inside next(): the level call is done, result held    *)
(*   pc = "panicked" next() unwound                                        *)
(***************************************************************************)
Callers == {"t1", "t2"}
NoIter == [pc |-> "none"]
NoCall == [kind |-> "NoCall"]
NoHistory == [given |-> NoCall, advances |-> <<>>]

\* the parent reference: the borrow &self.head of the one composite
deref(parent) == composite.head

\* a constructor that starts one level in
CompositeIterator_new_level_1(parent, m, args) ==
    [pc |-> "idle", method |-> m, parent |-> parent, args |-> args, level |-> 1,
     result |-> None]

CompositeIterator_new(parent, m, args) ==
    [pc |-> "idle", method |-> m, parent |-> parent, args |-> args, level |-> 0,
     result |-> None]

\* <iter_m>(&self, args) of impl Iter<Trait> for Composite<NodeType>
iter_method(m, args) == CompositeIterator_new("head", m, args)

\* next(), first statement: let result = self.parent.<m>_at_level(self.args, self.level)
next_call(self) ==
    LET result == at_level(deref(self.parent), self.method, self.args, self.level)
    IN IF result = Panic THEN [self EXCEPT !.pc = "panicked"]
       ELSE [self EXCEPT !.pc = "called", !.result = result]

\* a next() that forgets the increment
next_increment_none(its, c) == [its EXCEPT ![c].pc = "idle"]

\* a next() whose level cursor is shared by every iterator
next_increment_shared(its, c) ==
    LET s == usize_add(its[c].level, 1)
    IN IF s.ok
       THEN [d \in DOMAIN its |->
                IF d = c THEN [its[d] EXCEPT !.level = s.val, !.pc = "idle"]
                ELSE IF its[d].pc = "none" THEN its[d]
                ELSE [its[d] EXCEPT !.level = s.val]]
       ELSE [its EXCEPT ![c].pc = "panicked"]

\* next(), second statement: self.level += 1
next_increment(its, c) ==
    LET s == usize_add(its[c].level, 1)
    IN IF s.ok THEN [its EXCEPT ![c].level = s.val, ![c].pc = "idle"]
       ELSE [its EXCEPT ![c].pc = "panicked"]

(***************************************************************************)
(* The nest-level scheme of src/test.rs and benches/my_benchmark.rs: a     *)
(* node executes when the level asked for is its own nest level, and the   *)
(* iterator's cursor starts at the head's nest level and counts down.      *)
(***************************************************************************)
nest_unit_execute_at_level(self, input, level) == None

RECURSIVE nest_execute_at_level(_, _, _)

\* a Node impl that tests the level against the nest level of its next
nest_node_execute_at_level_of_next(self, input, level) ==
    IF level = nest_level(self.next)
    THEN Some(call_method(self.data, "execute_1", <<input>>))
    ELSE nest_execute_at_level(self.next, input, level)

nest_node_execute_at_level(self, input, level) ==
    IF level = nest_level(self)
    THEN Some(call_method(self.data, "execute_1", <<input>>))
    ELSE nest_execute_at_level(self.next, input, level)

\* static dispatch on the type of self
nest_execute_at_level(self, input, level) ==
    IF self.tag = "Unit" THEN nest_unit_execute_at_level(self, input, level)
    ELSE nest_node_execute_at_level(self, input, level)

nest_CompositeIterator_new(parent, input, max_level) ==
    [pc |-> "idle", parent |-> parent, input |-> input, level |-> max_level]

\* iter_execute(&self, input) of impl Composite<Nodes>
nest_iter_execute(input) ==
    nest_CompositeIterator_new("head", input, nest_level(composite.head))

\* next(), first statement: let result = self.parent.execute_at_level(self.input, self.level)
nest_next_result(self) == nest_execute_at_level(deref(self.parent), self.input, self.level)

\* a next() that decrements whatever the level is
nest_next_decrement_unguarded(self) ==
    LET l == usize_sub(self.level, 1)
    IN IF l.ok THEN [self EXCEPT !.level = l.val]
       ELSE [self EXCEPT !.pc = "panicked"]

\* next(), second statement: if self.level > 0 { self.level -= 1 }
nest_next_decrement(self) ==
    IF self.level > 0
    THEN LET l == usize_sub(self.level, 1)
         IN IF l.ok THEN [self EXCEPT !.level = l.val]
            ELSE [self EXCEPT !.pc = "panicked"]
    ELSE self

(***************************************************************************)
(* Identifiers are sequences of characters.                                *)
(***************************************************************************)
LowerChars == <<"a", "b", "c", "d", "e", "f", "g", "h", "i", "j", "k", "l", "m",
                "n", "o", "p", "q", "r", "s", "t", "u", "v", "w", "x", "y", "z">>
UpperChars == <<"A", "B", "C", "D", "E", "F", "G", "H", "I", "J", "K", "L", "M",
                "N", "O", "P", "Q", "R", "S", "T", "U", "V", "W", "X", "Y", "Z">>

is_lowercase(c) == \E k \in DOMAIN LowerChars : LowerChars[k] = c
is_uppercase(c) == \E k \in DOMAIN UpperChars : UpperChars[k] = c
to_uppercase(c) ==
    IF is_lowercase(c)
    THEN UpperChars[CHOOSE k \in DOMAIN LowerChars : LowerChars[k] = c]
    ELSE c
to_lowercase(c) ==
    IF is_uppercase(c)
    THEN LowerChars[CHOOSE k \in DOMAIN UpperChars : UpperChars[k] = c]
    ELSE c

(***************************************************************************)
(* m.to_string().to_case(Case::UpperCamel) of the convert_case crate: the  *)
(* name is split into words at every "_", before an upper-case letter that *)
(* follows a lower-case one, and before the last upper-case letter of a    *)
(* run that a lower-case letter follows; each word is written with its     *)
(* first letter in upper case and the rest in lower case, and the words    *)
(* are joined without a delimiter.                                         *)
(***************************************************************************)
\* whether a new word starts at position j of name
word_starts(name, j) ==
    \/ j = 1
    \/ name[j - 1] = "_"
    \/ is_lowercase(name[j - 1]) /\ is_uppercase(name[j])
    \/ /\ is_uppercase(name[j - 1]) /\ is_uppercase(name[j])
       /\ j < Len(name) /\ is_lowercase(name[j + 1])

RECURSIVE upper_camel_from(_, _)
upper_camel_from(name, j) ==
    IF j > Len(name) THEN <<>>
    ELSE IF name[j] = "_" THEN upper_camel_from(name, j + 1)
    ELSE IF word_starts(name, j)
         THEN <<to_uppercase(name[j])>> \o upper_camel_from(name, j + 1)
         ELSE <<to_lowercase(name[j])>> \o upper_camel_from(name, j + 1)

to_case_UpperCamel(name) == upper_camel_from(name, 1)

(***************************************************************************)
(* The syntax tree the generator reads: types, patterns, arguments,        *)
(* method signatures and generics.                                         *)
(***************************************************************************)
\* a type, with the lifetimes and the type parameters it mentions
type_of(name, lifetimes, params) ==
    [name |-> name, of |-> <<>>, lifetimes |-> lifetimes, params |-> params]
ty_usize == type_of(<<"u", "s", "i", "z", "e">>, {}, {})
ty_unit == type_of(<<"u", "n", "i", "t">>, {}, {})
ty_ref_a_I == type_of(<<"r", "e", "f", "_", "a", "_", "I">>, {<<"'", "a">>}, {<<"I">>})
ty_ref_a_usize == type_of(<<"r", "e", "f", "_", "a", "_", "u", "s", "i", "z", "e">>, {<<"'", "a">>}, {})
ty_R == type_of(<<"R">>, {}, {<<"R">>})
\* Option<ty>, PhantomData<T>, &'zero_v T
Option(ty) ==
    [name |-> <<"O", "p", "t", "i", "o", "n">>, of |-> <<ty>>, lifetimes |-> ty.lifetimes, params |-> ty.params]
PhantomData(ident) == type_of(<<"P", "h", "a", "n", "t", "o", "m", "D", "a", "t", "a">>, {}, {ident})
ref_zero_v(ident) == type_of(<<"r", "e", "f">>, {<<"'", "z", "e", "r", "o", "_", "v">>}, {ident})

\* FnArg::Receiver and FnArg::Typed; Pat::Ident or another pattern
receiver(form) == [kind |-> "Receiver", form |-> form]
pat_ident(ident) == [kind |-> "Ident", ident |-> ident]
pat_wild == [kind |-> "Wild"]
typed(pat, ty) == [kind |-> "Typed", pat |-> pat, ty |-> ty]

\* ReturnType::Default (none written) and ReturnType::Type
ReturnType_Default == [kind |-> "Default"]
ReturnType_Type(ty) == [kind |-> "Type", ty |-> ty]

\* TraitItem::Method: sig.ident, sig.inputs, sig.output; trailing: the argument
\* list is written with a comma after its last argument
method_sig(ident, inputs, output) ==
    [kind |-> "Method", ident |-> ident, inputs |-> inputs, trailing |-> FALSE,
     output |-> output]
trailing_comma(m) == [m EXCEPT !.trailing = TRUE]

\* Punctuated<T, Comma>::to_tokens: the values with a comma between them, and
\* one after the last when the list was parsed with it
comma == [kind |-> "Comma"]
RECURSIVE punctuated(_, _)
punctuated(values, trailing) ==
    IF values = <<>> THEN <<>>
    ELSE IF Len(values) = 1
         THEN <<values[1]>> \o (IF trailing THEN <<comma>> ELSE <<>>)
         ELSE <<values[1], comma>> \o punctuated(Tail(values), trailing)

\* #( <value>, )*: every value followed by a comma
RECURSIVE each_with_comma(_)
each_with_comma(values) ==
    IF values = <<>> THEN <<>>
    ELSE <<values[1], comma>> \o each_with_comma(Tail(values))

\* an expression or a field initialiser written in the template
expr(text) == [kind |-> "Expr", text |-> text]
field_init(ident, val) == [kind |-> "Init", field |-> ident, val |-> val]

\* GenericParam::Lifetime and GenericParam::Type; a where predicate
lifetime_param(ident) == [kind |-> "lifetime", ident |-> ident]
type_param(ident) == [kind |-> "type", ident |-> ident]
bound(path, args) == [path |-> path, args |-> args]
predicate(bounded, bounds) == [bounded |-> bounded, bounds |-> bounds]
generics_of(params, where_clause) == [params |-> params, where_clause |-> where_clause]
no_generics == generics_of(<<>>, <<>>)

RECURSIVE select_kind(_, _, _)
select_kind(seq, kind, keep) ==
    IF seq = <<>> THEN <<>>
    ELSE (IF (Head(seq).kind = kind) = keep THEN <<Head(seq)>> ELSE <<>>)
         \o select_kind(Tail(seq), kind, keep)

\* how syn prints generic parameters: the lifetimes first, then the others
lifetimes_first(params) ==
    select_kind(params, "lifetime", TRUE) \o select_kind(params, "lifetime", FALSE)

\* Generics::to_tokens and ImplGenerics: the parameters as declared
print_generics(generics) == lifetimes_first(generics.params)

\* TypeGenerics: the parameters' names
print_ty_generics(generics) ==
    LET ps == lifetimes_first(generics.params)
    IN [k \in DOMAIN ps |-> ps[k].ident]

(***************************************************************************)
(* Idents: every identifier the generator derives.                         *)
(***************************************************************************)
RECURSIVE method_idents(_)
method_idents(items) ==
    IF items = <<>> THEN <<>>
    ELSE IF Head(items).kind = "Method"
         THEN <<Head(items).ident>> \o method_idents(Tail(items))
         ELSE method_idents(Tail(items))

from_trait(main) == [main |-> main.ident, main_methods |-> method_idents(main.items)]
from_ident(main) == [main |-> main, main_methods |-> <<>>]

level_trait(self) == self.main \o <<"A", "t", "L", "e", "v", "e", "l">>
level_methods(self) ==
    [k \in DOMAIN self.main_methods |-> self.main_methods[k] \o <<"_", "a", "t", "_", "l", "e", "v", "e", "l">>]
iter_trait(self) == <<"I", "t", "e", "r">> \o self.main
iter_methods(self) ==
    [k \in DOMAIN self.main_methods |-> <<"i", "t", "e", "r", "_">> \o self.main_methods[k]]
\* iterator names built from the method name as written
composite_iters_verbatim(self) ==
    [k \in DOMAIN self.main_methods |->
        <<"C", "o", "m", "p", "o", "s", "i", "t", "e", "I", "t", "e", "r", "a", "t", "o", "r">> \o self.main_methods[k]]

composite_iters(self) ==
    [k \in DOMAIN self.main_methods |->
        <<"C", "o", "m", "p", "o", "s", "i", "t", "e", "I", "t", "e", "r", "a", "t", "o", "r">> \o to_case_UpperCamel(self.main_methods[k])]

(***************************************************************************)
(* TraitTypes::generate: what it extracts from the trait.                  *)
(***************************************************************************)
\* the trait's methods, in declaration order
trait_methods(trait) == select_kind(trait.items, "Method", TRUE)

\* the typed arguments of a method: every FnArg::Typed, no Receiver
trait_method_inputs(m) == select_kind(m.inputs, "Typed", TRUE)

\* the names of the typed arguments whose pattern is an identifier
RECURSIVE pat_idents(_)
pat_idents(args) ==
    IF args = <<>> THEN <<>>
    ELSE (IF Head(args).pat.kind = "Ident" THEN <<Head(args).pat>> ELSE <<>>)
         \o pat_idents(Tail(args))

trait_method_args(m) == pat_idents(trait_method_inputs(m))

\* self.<arg> for each of them
trait_method_self_args(m) ==
    LET args == trait_method_args(m)
    IN [k \in DOMAIN args |-> [kind |-> "SelfField", ident |-> args[k].ident]]

\* the return type, () when none is written
trait_method_outputs(m) == IF m.output.kind = "Default" THEN ty_unit ELSE m.output.ty

\* the level method takes the method's inputs as written, receiver included
level_method_inputs(m) == punctuated(m.inputs, m.trailing)

level_method_outputs(m) == Option(trait_method_outputs(m))

\* NodeType: NextNode + <LevelTrait><ty_generics>
zv_node_type == type_param(<<"N", "o", "d", "e", "T", "y", "p", "e">>)
zv_node_type_pred(trait) ==
    predicate(<<"N", "o", "d", "e", "T", "y", "p", "e">>,
              <<bound(<<"N", "e", "x", "t", "N", "o", "d", "e">>, <<>>),
                bound(level_trait(from_trait(trait)), print_ty_generics(trait.generics))>>)

\* TraitType: <Trait><ty_generics>
zv_trait_type == type_param(<<"T", "r", "a", "i", "t", "T", "y", "p", "e">>)
zv_trait_type_pred(trait) ==
    predicate(<<"T", "r", "a", "i", "t", "T", "y", "p", "e">>, <<bound(trait.ident, print_ty_generics(trait.generics))>>)

\* the trait's generics extended by parameters and by where predicates
extend_generics(generics, params, predicates) ==
    generics_of(generics.params \o params, generics.where_clause \o predicates)

level_generics(trait) ==
    extend_generics(trait.generics, <<zv_trait_type, zv_node_type>>,
                    <<zv_trait_type_pred(trait), zv_node_type_pred(trait)>>)

iter_generics(trait) ==
    extend_generics(trait.generics, <<zv_node_type>>, <<zv_node_type_pred(trait)>>)

\* the iterator type named without the trait's parameters: <'_, NodeType>
composite_generics_without_trait_params(trait) ==
    generics_of(<<lifetime_param(<<"'", "_">>), zv_node_type>>, <<>>)

\* the iterator type as the iter trait names it: <.., '_, NodeType>
composite_generics(trait) ==
    extend_generics(trait.generics, <<lifetime_param(<<"'", "_">>), zv_node_type>>, <<>>)

\* the iterator type as it is declared: <.., 'zero_v, NodeType> where NodeType: ..
composite_lifetime_generics(trait) ==
    extend_generics(trait.generics, <<lifetime_param(<<"'", "z", "e", "r", "o", "_", "v">>), zv_node_type>>,
                    <<zv_node_type_pred(trait)>>)

\* the trait's type parameters: each gets a PhantomData field
composite_phantom_types(trait) ==
    LET ps == select_kind(trait.generics.params, "type", TRUE)
    IN [k \in DOMAIN ps |-> ps[k].ident]

Digits == <<"0", "1", "2", "3", "4", "5", "6", "7", "8", "9">>

\* _phantom_<i>, i counted from 0
composite_phantom_names(trait) ==
    [k \in DOMAIN composite_phantom_types(trait) |-> <<"_", "p", "h", "a", "n", "t", "o", "m", "_">> \o <<Digits[k]>>]

composite_phantom_fields(trait) ==
    [k \in DOMAIN composite_phantom_types(trait) |->
        typed(pat_ident(composite_phantom_names(trait)[k]),
              PhantomData(composite_phantom_types(trait)[k]))]

composite_phantom_vals(trait) ==
    [k \in DOMAIN composite_phantom_types(trait) |->
        field_init(composite_phantom_names(trait)[k], <<"P", "h", "a", "n", "t", "o", "m", "D", "a", "t", "a">>)]

(***************************************************************************)
(* TraitTypes::generate: the quote! template.                              *)
(***************************************************************************)
arg_level == typed(pat_ident(<<"l", "e", "v", "e", "l">>), ty_usize)
arg_parent == typed(pat_ident(<<"p", "a", "r", "e", "n", "t">>), ref_zero_v(<<"N", "o", "d", "e", "T", "y", "p", "e">>))

\* fn <m>_at_level(<inputs>, level: usize) -> Option<..>
level_method_sig(trait, k) ==
    LET m == trait_methods(trait)[k]
    IN [ident |-> level_methods(from_trait(trait))[k],
        inputs |-> level_method_inputs(m) \o <<comma, arg_level>>,
        output |-> level_method_outputs(m)]

level_method_sigs(trait) ==
    [k \in DOMAIN trait_methods(trait) |-> level_method_sig(trait, k)]

\* trait <LevelTrait> <generics> <where> { .. }
level_trait_decl(trait) ==
    [ident |-> level_trait(from_trait(trait)),
     generics |-> print_generics(trait.generics),
     where_clause |-> trait.generics.where_clause,
     methods |-> level_method_sigs(trait)]

\* impl <LevelTrait> for (): every method returns None
unit_impl(trait) ==
    [impl_generics |-> print_generics(trait.generics),
     trait |-> level_trait(from_trait(trait)),
     ty_generics |-> print_ty_generics(trait.generics),
     for |-> <<"u", "n", "i", "t">>,
     where_clause |-> trait.generics.where_clause,
     methods |-> level_method_sigs(trait)]

\* the body of a level method of Node
node_method_body(trait, k) ==
    LET m == trait_methods(trait)[k]
    IN [cond |-> "level != 0",
        then_call |-> [on |-> "self.next",
                       method |-> level_methods(from_trait(trait))[k],
                       args |-> punctuated(trait_method_args(m), FALSE)
                                \o <<comma, expr("level - 1")>>],
        else_call |-> [on |-> "self.data",
                       method |-> m.ident,
                       args |-> punctuated(trait_method_args(m), FALSE)]]

\* impl <LevelTrait> for Node<TraitType, NodeType>
node_impl(trait) ==
    [impl_generics |-> print_generics(level_generics(trait)),
     trait |-> level_trait(from_trait(trait)),
     ty_generics |-> print_ty_generics(trait.generics),
     for |-> [name |-> <<"N", "o", "d", "e">>, args |-> <<<<"T", "r", "a", "i", "t", "T", "y", "p", "e">>, <<"N", "o", "d", "e", "T", "y", "p", "e">>>>],
     where_clause |-> level_generics(trait).where_clause,
     methods |-> level_method_sigs(trait),
     bodies |-> [k \in DOMAIN trait_methods(trait) |-> node_method_body(trait, k)]]

\* fn iter_<m>(<inputs>) -> CompositeIterator<M><.., '_, NodeType>
iter_method_sig(trait, k) ==
    LET m == trait_methods(trait)[k]
    IN [ident |-> iter_methods(from_trait(trait))[k],
        inputs |-> level_method_inputs(m),
        output |-> [ident |-> composite_iters(from_trait(trait))[k],
                    args |-> print_ty_generics(composite_generics(trait))]]

iter_method_sigs(trait) ==
    [k \in DOMAIN trait_methods(trait) |-> iter_method_sig(trait, k)]

\* trait <IterTrait> <generics, NodeType> <where> { .. }
iter_trait_decl(trait) ==
    [ident |-> iter_trait(from_trait(trait)),
     generics |-> print_generics(iter_generics(trait)),
     where_clause |-> iter_generics(trait).where_clause,
     methods |-> iter_method_sigs(trait)]

\* impl <IterTrait> for Composite<NodeType>: each method calls the iterator's new
composite_impl(trait) ==
    [impl_generics |-> print_generics(iter_generics(trait)),
     trait |-> iter_trait(from_trait(trait)),
     ty_generics |-> print_ty_generics(iter_generics(trait)),
     for |-> [name |-> <<"C", "o", "m", "p", "o", "s", "i", "t", "e">>, args |-> <<<<"N", "o", "d", "e", "T", "y", "p", "e">>>>],
     where_clause |-> iter_generics(trait).where_clause,
     methods |-> iter_method_sigs(trait),
     bodies |-> [k \in DOMAIN trait_methods(trait) |->
                    [on |-> composite_iters(from_trait(trait))[k],
                     method |-> <<"n", "e", "w">>,
                     args |-> <<expr("&self.head"), comma>>
                              \o punctuated(trait_method_args(trait_methods(trait)[k]),
                                            FALSE)]]]

\* struct CompositeIterator<M> <.., 'zero_v, NodeType> <where> { .. }
composite_struct(trait, k) ==
    LET m == trait_methods(trait)[k]
    IN [ident |-> composite_iters(from_trait(trait))[k],
        generics |-> print_generics(composite_lifetime_generics(trait)),
        where_clause |-> composite_lifetime_generics(trait).where_clause,
        fields |-> <<arg_level, comma>>
                   \o punctuated(trait_method_inputs(m), FALSE)
                   \o <<comma, arg_parent, comma>>
                   \o each_with_comma(composite_phantom_fields(trait))]

\* impl .. CompositeIterator<M> .. { fn new(parent, <inputs>) -> Self }
composite_new(trait, k) ==
    LET m == trait_methods(trait)[k]
    IN [impl_generics |-> print_generics(composite_lifetime_generics(trait)),
        self_ty |-> composite_iters(from_trait(trait))[k],
        ty_generics |-> print_ty_generics(composite_lifetime_generics(trait)),
        where_clause |-> composite_lifetime_generics(trait).where_clause,
        inputs |-> <<arg_parent, comma>> \o punctuated(trait_method_inputs(m), FALSE),
        init |-> <<pat_ident(<<"p", "a", "r", "e", "n", "t">>), comma>>
                 \o punctuated(trait_method_args(m), FALSE)
                 \o <<comma, field_init(<<"l", "e", "v", "e", "l">>, <<"0">>), comma>>
                 \o each_with_comma(composite_phantom_vals(trait))]

\* impl .. Iterator for CompositeIterator<M> ..
composite_iterator_impl(trait, k) ==
    LET m == trait_methods(trait)[k]
    IN [impl_generics |-> print_generics(composite_lifetime_generics(trait)),
        self_ty |-> composite_iters(from_trait(trait))[k],
        ty_generics |-> print_ty_generics(composite_lifetime_generics(trait)),
        where_clause |-> composite_lifetime_generics(trait).where_clause,
        item |-> trait_method_outputs(m),
        next_call |-> [on |-> "self.parent",
                       method |-> level_methods(from_trait(trait))[k],
                       args |-> punctuated(trait_method_self_args(m), FALSE)
                                \o <<comma, expr("self.level")>>]]

composite_iterator(trait, k) ==
    [struct |-> composite_struct(trait, k),
     new |-> composite_new(trait, k),
     iterator |-> composite_iterator_impl(trait, k)]

\* use zero_v::{Composite, NextNode, Node}; use std::marker::PhantomData;
use_decls ==
    <<[item |-> "use", ident |-> <<"z", "e", "r", "o", "_", "v">>, of |-> <<<<"C", "o", "m", "p", "o", "s", "i", "t", "e">>, <<"N", "e", "x", "t", "N", "o", "d", "e">>, <<"N", "o", "d", "e">>>>],
      [item |-> "use", ident |-> <<"s", "t", "d", "_", "m", "a", "r", "k", "e", "r">>, of |-> <<<<"P", "h", "a", "n", "t", "o", "m", "D", "a", "t", "a">>>>]>>

(***************************************************************************)
(* TraitTypes::generate: the declarations emitted for a trait, in the      *)
(* order of the quote! template.  An input that does not parse as a trait  *)
(* yields the parse error and nothing else.                                *)
(***************************************************************************)
decl(item, ident, of) == [item |-> item, ident |-> ident, of |-> of]

\* per method a struct and an Iterator impl, no constructor
iterator_decls_without_new(idents, k) ==
    <<decl("struct", composite_iters(idents)[k], idents.main_methods[k]),
      decl("impl Iterator", composite_iters(idents)[k], idents.main_methods[k])>>

\* the three declarations emitted per method: struct, impl with new, impl Iterator
iterator_decls(idents, k) ==
    <<decl("struct", composite_iters(idents)[k], idents.main_methods[k]),
      decl("impl", composite_iters(idents)[k], idents.main_methods[k]),
      decl("impl Iterator", composite_iters(idents)[k], idents.main_methods[k])>>

RECURSIVE all_iterator_decls(_, _)
all_iterator_decls(idents, k) ==
    IF k > Len(idents.main_methods) THEN <<>>
    ELSE iterator_decls(idents, k) \o all_iterator_decls(idents, k + 1)

\* the template without its two leading use declarations
tokens_trait_first(input) ==
    LET idents == from_trait(input)
    IN <<decl("trait", input.ident, input),
         decl("trait", level_trait(idents), level_methods(idents)),
         decl("impl for ()", level_trait(idents), level_methods(idents)),
         decl("impl for Node", level_trait(idents), level_methods(idents)),
         decl("trait", iter_trait(idents), iter_methods(idents)),
         decl("impl for Composite", iter_trait(idents), iter_methods(idents))>>
       \o all_iterator_decls(idents, 1)

tokens(input) == use_decls \o tokens_trait_first(input)

generate(input) ==
    IF input.item # "trait" THEN [status |-> "error", tokens |-> <<>>]
    ELSE LET idents == from_trait(input)
         IN [status |-> "ok",
             level_trait |-> level_trait(idents),
             level_methods |-> level_methods(idents),
             iter_trait |-> iter_trait(idents),
             iter_methods |-> iter_methods(idents),
             composite_iters |-> composite_iters(idents),
             level_trait_decl |-> level_trait_decl(input),
             unit_impl |-> unit_impl(input),
             node_impl |-> node_impl(input),
             iter_trait_decl |-> iter_trait_decl(input),
             composite_impl |-> composite_impl(input),
             iterators |-> [k \in DOMAIN trait_methods(input) |->
                               composite_iterator(input, k)],
             tokens |-> tokens(input)]

(***************************************************************************)
(* FnGenerics::generate: #[zero_v(fn_generics, <trait_ident> as             *)
(* <type_name>)] on a function adds the type parameters NodeType and       *)
(* <type_name> and their two where predicates.  An input that does not     *)
(* parse as a function yields the parse error and nothing else.            *)
(***************************************************************************)
\* the arguments of the attribute: <trait_ident> as <type_name>
FnGenerics(trait_ident, type_name) == [trait_ident |-> trait_ident, type_name |-> type_name]

\* NodeType: NextNode + <LevelTrait> #generics
fn_node_type_pred(self, generics) ==
    predicate(<<"N", "o", "d", "e", "T", "y", "p", "e">>,
              <<bound(<<"N", "e", "x", "t", "N", "o", "d", "e">>, <<>>),
                bound(level_trait(from_ident(self.trait_ident)), print_generics(generics))>>)

\* <type_name>: <IterTrait> #iter_generics, iter_generics being #generics and NodeType
fn_type_name_pred(self, generics) ==
    predicate(self.type_name,
              <<bound(iter_trait(from_ident(self.trait_ident)),
                      print_generics(extend_generics(generics, <<zv_node_type>>, <<>>)))>>)

\* the where clause `composed` writes: NodeType: <LevelTrait> + NextNode,
\* <type_name>: <IterTrait><NodeType>
composed_where_clause(self) ==
    <<predicate(<<"N", "o", "d", "e", "T", "y", "p", "e">>,
                <<bound(level_trait(from_ident(self.trait_ident)), <<>>),
                  bound(<<"N", "e", "x", "t", "N", "o", "d", "e">>, <<>>)>>),
      predicate(self.type_name,
                <<bound(iter_trait(from_ident(self.trait_ident)), <<zv_node_type>>)>>)>>

\* #[composed(<trait_ident> as <type_name>)]: pushes the two type parameters and
\* assigns the where clause
composed(self, input) ==
    IF input.item # "fn" THEN [status |-> "error"]
    ELSE [status |-> "ok",
          f |-> [input EXCEPT !.generics =
                    generics_of(input.generics.params
                                    \o <<zv_node_type, type_param(self.type_name)>>,
                                composed_where_clause(self))]]

FnGenerics_generate(self, input) ==
    IF input.item # "fn" THEN [status |-> "error"]
    ELSE [status |-> "ok",
          f |-> [input EXCEPT !.generics =
                    extend_generics(input.generics,
                                    <<zv_node_type, type_param(self.type_name)>>,
                                    <<fn_node_type_pred(self, input.generics),
                                      fn_type_name_pred(self, input.generics)>>)]]

(***************************************************************************)
(* The inputs given to the generator.                                      *)
(***************************************************************************)
\* a method fn <ident>(&self, input: usize) -> usize
method_item(ident) ==
    method_sig(ident, <<receiver("&self"), typed(pat_ident(<<"i", "n", "p", "u", "t">>), ty_usize)>>,
               ReturnType_Type(ty_usize))
type_item(ident) == [kind |-> "Type", ident |-> ident]

n_execute_1 == <<"e", "x", "e", "c", "u", "t", "e", "_", "1">>
n_execute_2 == <<"e", "x", "e", "c", "u", "t", "e", "_", "2">>
n_apply == <<"a", "p", "p", "l", "y">>
n_foo_bar == <<"f", "o", "o", "_", "b", "a", "r">>
n_fooBar == <<"f", "o", "o", "B", "a", "r">>
n_foobar == <<"f", "o", "o", "b", "a", "r">>
n_Output == <<"O", "u", "t", "p", "u", "t">>
n_IntOp == <<"I", "n", "t", "O", "p">>
n_MyTrait == <<"M", "y", "T", "r", "a", "i", "t">>

\* trait IntOp of tests/int_op_test.rs
m_execute_1 == method_item(n_execute_1)
m_execute_2 ==
    method_sig(n_execute_2,
               <<receiver("&self"), typed(pat_ident(<<"i", "n", "p", "u", "t", "_", "1">>), ty_usize),
                 typed(pat_ident(<<"i", "n", "p", "u", "t", "_", "2">>), ty_usize)>>,
               ReturnType_Type(ty_usize))

IntOpTrait ==
    [item |-> "trait", ident |-> n_IntOp, generics |-> no_generics,
     items |-> <<m_execute_1, m_execute_2>>]

TraitIdents == {n_IntOp, n_MyTrait}
TraitItems ==
    {method_item(n) : n \in {n_execute_1, n_execute_2, n_apply, n_foo_bar, n_fooBar,
                             n_foobar}}
    \cup {type_item(n_Output)}

(***************************************************************************)
(* Initial states.                                                         *)
(***************************************************************************)
\* the trait of generics_test.rs: trait MyTrait<'a, I, R> where I: Copy
g_MyTrait ==
    generics_of(<<lifetime_param(<<"'", "a">>), type_param(<<"I">>), type_param(<<"R">>)>>,
                <<predicate(<<"I">>, <<bound(<<"C", "o", "p", "y">>, <<>>)>>)>>)
\* a trait with one lifetime parameter
g_lifetime == generics_of(<<lifetime_param(<<"'", "a">>)>>, <<>>)

\* fn apply(&self, input: &'a I) -> R
m_apply ==
    method_sig(<<"a", "p", "p", "l", "y">>, <<receiver("&self"), typed(pat_ident(<<"i", "n", "p", "u", "t">>), ty_ref_a_I)>>,
               ReturnType_Type(ty_R))
\* fn notify(&self, event: usize)
m_notify ==
    method_sig(<<"n", "o", "t", "i", "f", "y">>, <<receiver("&self"), typed(pat_ident(<<"e", "v", "e", "n", "t">>), ty_usize)>>,
               ReturnType_Default)
\* fn reset(&mut self, input: usize) -> usize
m_reset ==
    method_sig(<<"r", "e", "s", "e", "t">>, <<receiver("&mut self"), typed(pat_ident(<<"i", "n", "p", "u", "t">>), ty_usize)>>,
               ReturnType_Type(ty_usize))
\* fn consume(self, input: usize) -> usize
m_consume ==
    method_sig(<<"c", "o", "n", "s", "u", "m", "e">>, <<receiver("self"), typed(pat_ident(<<"i", "n", "p", "u", "t">>), ty_usize)>>,
               ReturnType_Type(ty_usize))
\* fn create(input: usize) -> usize
m_create ==
    method_sig(<<"c", "r", "e", "a", "t", "e">>, <<typed(pat_ident(<<"i", "n", "p", "u", "t">>), ty_usize)>>,
               ReturnType_Type(ty_usize))
\* fn get(&self, index: usize) -> &'a usize
m_get ==
    method_sig(<<"g", "e", "t">>, <<receiver("&self"), typed(pat_ident(<<"i", "n", "d", "e", "x">>), ty_usize)>>,
               ReturnType_Type(ty_ref_a_usize))
\* fn ignore(&self, _: usize) -> usize
m_ignore ==
    method_sig(<<"i", "g", "n", "o", "r", "e">>, <<receiver("&self"), typed(pat_wild, ty_usize)>>,
               ReturnType_Type(ty_usize))
\* fn len(&self) -> usize
m_len == method_sig(<<"l", "e", "n">>, <<receiver("&self")>>, ReturnType_Type(ty_usize))

\* the generics a trait is declared with and the items it may then hold: each
\* item names declared parameters only
SigTraits ==
    {[generics |-> no_generics,
      items |-> {m_execute_2, m_notify, m_reset, m_consume, m_create}],
     [generics |-> g_lifetime,
      items |-> {m_execute_1, m_get, m_ignore, m_len}],
     [generics |-> g_MyTrait,
      items |-> {m_apply, trailing_comma(m_execute_2), type_item(n_Output)}]}

MyTrait(generics, items) ==
    [item |-> "trait", ident |-> n_MyTrait, generics |-> generics, items |-> items]

\* identifiers declared in the module before the generator runs
Scopes == {{}, {<<"C", "o", "m", "p", "o", "s", "i", "t", "e">>}, {<<"I", "t", "e", "r", "M", "y", "T", "r", "a", "i", "t">>}}

\* a function with the type parameter NodeType of its own
g_NodeType == generics_of(<<type_param(<<"N", "o", "d", "e", "T", "y", "p", "e">>)>>, <<>>)

\* the functions given to fn_generics: execute_1 of int_op_test.rs, apply of
\* generics_test.rs, a function generic over NodeType; and an item that is no fn
FnItems ==
    {[item |-> item, ident |-> ident, generics |-> generics,
      inputs |-> "inputs as written", output |-> "output as written",
      block |-> "block as written"] :
        item \in {"fn", "trait"}, ident \in {n_execute_1, n_apply},
        generics \in {no_generics, g_MyTrait, g_NodeType}}

\* the attribute's arguments: IntOp as IntOps, MyTrait as MyTraits, and .. as NodeType
FnAttrs ==
    {FnGenerics(trait_ident, type_name) :
        trait_ident \in {n_IntOp, n_MyTrait},
        type_name \in {<<"I", "n", "t", "O", "p", "s">>, <<"M", "y", "T", "r", "a", "i", "t", "s">>, <<"N", "o", "d", "e", "T", "y", "p", "e">>}}

NoFn == [item |-> "none"]

RECURSIVE SeqsUpTo(_, _)
SeqsUpTo(S, n) ==
    IF n = 0 THEN {<<>>}
    ELSE LET shorter == SeqsUpTo(S, n - 1)
         IN shorter \cup {Append(s, x) : s \in shorter, x \in S}

Init ==
    /\ elems \in SeqsUpTo(Elems, MaxDepth)
    /\ composite = compose(elems)
    /\ overflow_checks \in BOOLEAN
    /\ iters = [c \in Callers |-> NoIter]
    /\ returned = [c \in Callers |-> <<>>]
    /\ at_level_call = NoCall
    /\ trait_type = IntOpTrait
    /\ emitted = <<>>
    /\ scope = {}
    /\ fn_item = NoFn
    /\ augmented = <<>>
    /\ history = [c \in Callers |-> NoHistory]
    /\ nest_iters = [c \in Callers |-> NoIter]
    /\ nest_returned = [c \in Callers |-> <<>>]

(***************************************************************************)
(* Actions of the generated run-time code.                                 *)
(***************************************************************************)
\* caller c calls composite.<iter_m>(args)
IterNew(c, m, args) ==
    /\ iters[c] = NoIter
    /\ iters' = [iters EXCEPT ![c] = iter_method(m, args)]
    /\ history' = [history EXCEPT ![c] = [given |-> [method |-> m, args |-> args],
                                          advances |-> <<>>]]
    /\ UNCHANGED <<elems, composite, overflow_checks, returned, at_level_call,
                   trait_type, emitted, scope, fn_item, augmented,
                   nest_iters, nest_returned>>

\* caller c enters next() on its iterator and makes the level call
NextCall(c) ==
    /\ iters[c].pc = "idle"
    /\ Len(returned[c]) < MaxAdvances
    /\ iters' = [iters EXCEPT ![c] = next_call(iters[c])]
    /\ history' = [history EXCEPT ![c].advances =
                      Append(@, at_level_steps(deref(iters[c].parent), iters[c].method,
                                               iters[c].args, iters[c].level))]
    /\ UNCHANGED <<elems, composite, overflow_checks, returned, at_level_call,
                   trait_type, emitted, scope, fn_item, augmented,
                   nest_iters, nest_returned>>

\* caller c's next() increments the level and returns the held result
NextReturn(c) ==
    /\ iters[c].pc = "called"
    /\ iters' = next_increment(iters, c)
    /\ returned' = IF iters'[c].pc = "idle"
                   THEN [returned EXCEPT ![c] = Append(@, iters[c].result)]
                   ELSE returned
    /\ UNCHANGED <<elems, composite, overflow_checks, at_level_call,
                   trait_type, emitted, scope, fn_item, augmented, history,
                   nest_iters, nest_returned>>

\* a direct call composite.head.<m>_at_level(args, level)
CallAtLevel(m, args, level) ==
    /\ at_level_call' = [method |-> m, args |-> args, level |-> level,
                         result |-> at_level(composite.head, m, args, level),
                         steps |-> at_level_steps(composite.head, m, args, level)]
    /\ UNCHANGED <<elems, composite, overflow_checks, iters, returned,
                   trait_type, emitted, scope, fn_item, augmented, history,
                   nest_iters, nest_returned>>

IterStep ==
    \/ \E c \in Callers, m \in Methods : \E args \in ArgTuples(m) : IterNew(c, m, args)
    \/ \E c \in Callers : NextCall(c)
    \/ \E c \in Callers : NextReturn(c)

LevelStep ==
    \E m \in Methods, level \in Usize : \E args \in ArgTuples(m) :
        CallAtLevel(m, args, level)

Next == IterStep

Spec == Init /\ [][Next]_vars

\* caller c calls composite.iter_execute(input) of the nest-level scheme
NestIterNew(c, input) ==
    /\ nest_iters[c] = NoIter
    /\ nest_iters' = [nest_iters EXCEPT ![c] = nest_iter_execute(input)]
    /\ UNCHANGED <<elems, composite, overflow_checks, iters, returned, at_level_call,
                   trait_type, emitted, scope, fn_item, augmented, history,
                   nest_returned>>

\* caller c calls next() on its nest-level iterator
NestNext(c) ==
    /\ nest_iters[c].pc = "idle"
    /\ Len(nest_returned[c]) < MaxAdvances
    /\ nest_iters' = [nest_iters EXCEPT ![c] = nest_next_decrement(nest_iters[c])]
    /\ nest_returned' = IF nest_iters'[c].pc = "idle"
                        THEN [nest_returned EXCEPT ![c] =
                                 Append(@, nest_next_result(nest_iters[c]))]
                        ELSE nest_returned
    /\ UNCHANGED <<elems, composite, overflow_checks, iters, returned, at_level_call,
                   trait_type, emitted, scope, fn_item, augmented, history>>

\* the caller that runs both schemes over the one list
BothSchemes == {"t1"}

NestStep ==
    \/ \E c \in BothSchemes, args \in ArgTuples("execute_1") : NestIterNew(c, args[1])
    \/ \E c \in BothSchemes : NestNext(c)

\* iter_execute of the level-0 scheme, by the same caller
ZeroStep ==
    \/ \E c \in BothSchemes, args \in ArgTuples("execute_1") : IterNew(c, "execute_1", args)
    \/ \E c \in BothSchemes : NextCall(c)
    \/ \E c \in BothSchemes : NextReturn(c)

NextNest == NestStep \/ ZeroStep

SpecNest == Init /\ [][NextNest]_vars

\* direct level calls only
NextLevel == LevelStep

SpecLevel == Init /\ [][NextLevel]_vars

(***************************************************************************)
(* The generator: each invocation of #[zero_v(trait_types)] on the input.  *)
(***************************************************************************)
InitGen ==
    /\ elems = <<>>
    /\ composite = compose(elems)
    /\ overflow_checks = TRUE
    /\ iters = [c \in Callers |-> NoIter]
    /\ returned = [c \in Callers |-> <<>>]
    /\ at_level_call = NoCall
    /\ \E item \in {"trait", "fn"}, ident \in TraitIdents :
       \E items \in SeqsUpTo(TraitItems, MaxItems) :
          trait_type = [item |-> item, ident |-> ident, generics |-> no_generics,
                        items |-> items]
    /\ emitted = <<>>
    /\ scope = {}
    /\ fn_item = NoFn
    /\ augmented = <<>>
    /\ history = [c \in Callers |-> NoHistory]
    /\ nest_iters = [c \in Callers |-> NoIter]
    /\ nest_returned = [c \in Callers |-> <<>>]

Generate ==
    /\ Len(emitted) < MaxGenerations
    /\ emitted' = Append(emitted, generate(trait_type))
    /\ UNCHANGED <<elems, composite, overflow_checks, iters, returned, at_level_call,
                   trait_type, scope, fn_item, augmented, history,
                   nest_iters, nest_returned>>

NextGen == Generate

SpecGen == InitGen /\ [][NextGen]_vars

(***************************************************************************)
(* The generator on traits with generics and every shape of signature,     *)
(* placed in a module that may declare identifiers of its own; a second    *)
(* invocation in the same module is on another trait.                      *)
(***************************************************************************)
InitSig ==
    /\ elems = <<>>
    /\ composite = compose(elems)
    /\ overflow_checks = TRUE
    /\ iters = [c \in Callers |-> NoIter]
    /\ returned = [c \in Callers |-> <<>>]
    /\ at_level_call = NoCall
    /\ \E t \in SigTraits :
       \E items \in SeqsUpTo(t.items, MaxItems) :
          trait_type = MyTrait(t.generics, items)
    /\ emitted = <<>>
    /\ scope \in Scopes
    /\ fn_item = NoFn
    /\ augmented = <<>>
    /\ history = [c \in Callers |-> NoHistory]
    /\ nest_iters = [c \in Callers |-> NoIter]
    /\ nest_returned = [c \in Callers |-> <<>>]

\* the next #[zero_v(trait_types)] of the module is on IntOp
NextTrait ==
    /\ emitted # <<>>
    /\ trait_type # IntOpTrait
    /\ trait_type' = IntOpTrait
    /\ UNCHANGED <<elems, composite, overflow_checks, iters, returned, at_level_call,
                   emitted, scope, fn_item, augmented, history,
                   nest_iters, nest_returned>>

NextSig == Generate \/ NextTrait

SpecSig == InitSig /\ [][NextSig]_vars

(***************************************************************************)
(* The signature augmenter: each invocation of #[zero_v(fn_generics, ..)]. *)
(***************************************************************************)
InitFn ==
    /\ elems = <<>>
    /\ composite = compose(elems)
    /\ overflow_checks = TRUE
    /\ iters = [c \in Callers |-> NoIter]
    /\ returned = [c \in Callers |-> <<>>]
    /\ at_level_call = NoCall
    /\ trait_type = IntOpTrait
    /\ emitted = <<>>
    /\ scope = {}
    /\ \E macro \in {"fn_generics", "composed"}, attr \in FnAttrs, input \in FnItems :
          fn_item = [macro |-> macro, attr |-> attr, input |-> input]
    /\ augmented = <<>>
    /\ history = [c \in Callers |-> NoHistory]
    /\ nest_iters = [c \in Callers |-> NoIter]
    /\ nest_returned = [c \in Callers |-> <<>>]

Augment ==
    /\ fn_item.macro = "fn_generics"
    /\ Len(augmented) < MaxGenerations
    /\ augmented' = Append(augmented, FnGenerics_generate(fn_item.attr, fn_item.input))
    /\ UNCHANGED <<elems, composite, overflow_checks, iters, returned, at_level_call,
                   trait_type, emitted, scope, fn_item, history,
                   nest_iters, nest_returned>>

\* the function carries #[composed(..)]
Composed ==
    /\ fn_item.macro = "composed"
    /\ Len(augmented) < MaxGenerations
    /\ augmented' = Append(augmented, composed(fn_item.attr, fn_item.input))
    /\ UNCHANGED <<elems, composite, overflow_checks, iters, returned, at_level_call,
                   trait_type, emitted, scope, fn_item, history,
                   nest_iters, nest_returned>>

NextFn == Augment \/ Composed

SpecFn == InitFn /\ [][NextFn]_vars

\* the run-time code on the empty list: compose!()
InitEmpty == Init /\ elems = <<>>

NextEmpty == IterStep \/ LevelStep

SpecEmpty == InitEmpty /\ [][NextEmpty]_vars

(***************************************************************************)
(* What the claims are stated in.                                          *)
(***************************************************************************)
\* depth of the composed list
N == Len(elems)

\* e_i.m(args) for the i-th composed value, i counted from 0
elem_result(i, m, args) == call_method(elems[i + 1], m, args)

\* [e_0.m(args), ..., e_{N-1}.m(args)]
expected_values(m, args) == [k \in 1..N |-> elem_result(k - 1, m, args)]

\* the values an Iterator consumer collects: those before the first None
RECURSIVE collect(_)
collect(rs) ==
    IF rs = <<>> \/ Head(rs).kind # "Some" THEN <<>>
    ELSE <<Head(rs).val>> \o collect(Tail(rs))

is_prefix(s, t) == Len(s) <= Len(t) /\ \A k \in 1..Len(s) : s[k] = t[k]

has_none(rs) == \E k \in DOMAIN rs : rs[k] = None

constructed(c) == iters[c].pc # "none"

\* (0..N).filter_map(|i| head.<m>_at_level(args, i)).collect()
RECURSIVE manual_from(_, _, _)
manual_from(m, args, i) ==
    IF i >= N THEN <<>>
    ELSE LET r == at_level(composite.head, m, args, i)
         IN (IF r.kind = "Some" THEN <<r.val>> ELSE <<>>) \o manual_from(m, args, i + 1)

(***************************************************************************)
(* C1.  On the list composed from e_0 .. e_{N-1}, the level method of      *)
(* every method m, for every argument tuple, returns Some(e_i.m(args))     *)
(* for every index i < N and None for every index i >= N.                  *)
(***************************************************************************)
C1_LevelMethodIndexes ==
    at_level_call # NoCall =>
        at_level_call.result =
            IF at_level_call.level < N
            THEN Some(elem_result(at_level_call.level, at_level_call.method,
                                  at_level_call.args))
            ELSE None

\* a call at an inner index of a list of three, with two arguments
C1_Witness ==
    /\ at_level_call # NoCall
    /\ N = 3
    /\ at_level_call.level = 1
    /\ at_level_call.method = "execute_2"
    /\ at_level_call.result.kind = "Some"

(***************************************************************************)
(* C2.  The iterator of iter_m(args) returns e_0.m(args), ...,             *)
(* e_{N-1}.m(args) in composition order from its first N next() calls and  *)
(* None from call N+1: exactly N values come before the first None.        *)
(***************************************************************************)
C2_IteratorYieldsInOrder ==
    \A c \in Callers :
        constructed(c) =>
            \A k \in 1..Len(returned[c]) :
                /\ k <= N =>
                      returned[c][k] =
                          Some(elem_result(k - 1, iters[c].method, iters[c].args))
                /\ k = N + 1 => returned[c][k] = None

\* an iterator of the two-argument method run to its end over a list of three
C2_Witness ==
    \E c \in Callers :
        /\ constructed(c)
        /\ N = 3
        /\ iters[c].method = "execute_2"
        /\ Len(returned[c]) = N + 1
        /\ returned[c][N].kind = "Some"

(***************************************************************************)
(* C3.  On the empty list every level method returns None for every index  *)
(* and argument tuple, and every iterator's first next() returns None: the *)
(* sequence is empty.                                                      *)
(***************************************************************************)
C3_EmptyList ==
    N = 0 =>
        /\ composite.head = Unit
        /\ at_level_call # NoCall => at_level_call.result = None
        /\ \A c \in Callers :
              /\ \A k \in DOMAIN returned[c] : returned[c][k] = None
              /\ collect(returned[c]) = <<>>
              /\ iters[c].pc = "called" => iters[c].result = None

\* on the empty list: a level call at the last index, and an advanced iterator
C3_Witness ==
    /\ N = 0
    /\ at_level_call # NoCall
    /\ at_level_call.level = UsizeMax
    /\ \E c \in Callers : Len(returned[c]) >= 2

(***************************************************************************)
(* C4.  Two iterators from two iter_m(args) calls on one list are          *)
(* independent: each starts at level 0 and its level cursor counts its own *)
(* next() calls only; given the same method and arguments they return the  *)
(* same values position by position, however their advances are ordered.   *)
(***************************************************************************)
C4_IndependentIterators ==
    \A c \in Callers :
        constructed(c) =>
            /\ iters[c].level = Len(returned[c]) % (UsizeMax + 1)
            /\ \A d \in Callers \ {c} :
                  (/\ constructed(d)
                   /\ iters[d].method = iters[c].method
                   /\ iters[d].args = iters[c].args)
                  => \/ is_prefix(returned[c], returned[d])
                     \/ is_prefix(returned[d], returned[c])

\* one iterator consumed to its end while its twin has made a single advance
C4_Witness ==
    /\ N >= 2
    /\ constructed("t1") /\ constructed("t2")
    /\ iters["t1"].method = iters["t2"].method
    /\ iters["t1"].args = iters["t2"].args
    /\ Len(returned["t1"]) = N + 1
    /\ Len(returned["t2"]) = 1

C6_Yields ==
    \A c \in Callers :
        constructed(c) =>
            /\ is_prefix(collect(returned[c]),
                         expected_values(iters[c].method, iters[c].args))
            /\ has_none(returned[c]) =>
                  collect(returned[c]) = expected_values(iters[c].method, iters[c].args)

C6_Frame ==
    /\ composite' = composite
    /\ \A c \in Callers :
          (iters'[c] # iters[c] \/ returned'[c] # returned[c]) =>
              \A d \in Callers \ {c} : iters'[d] = iters[d] /\ returned'[d] = returned[d]

C6_ConcurrentIterators == []C6_Yields /\ [][C6_Frame]_vars

\* both threads inside next() at once, at different levels of different methods
C6_Witness ==
    /\ N >= 2
    /\ iters["t1"].pc = "called" /\ iters["t2"].pc = "called"
    /\ iters["t1"].method # iters["t2"].method
    /\ iters["t1"].level = 0 /\ iters["t2"].level = N
    /\ has_none(returned["t2"]) = FALSE

C8_LevelCallNeverFaults ==
    at_level_call # NoCall =>
        /\ at_level_call.result.kind \in {"Some", "None"}
        /\ at_level_call.level >= N => at_level_call.result.kind = "None"
        /\ at_level_call.level < N => at_level_call.result.kind = "Some"

\* the largest index on a list of two, overflow checks on
C8_Witness ==
    /\ at_level_call # NoCall
    /\ overflow_checks
    /\ N = 2
    /\ at_level_call.level = UsizeMax
    /\ at_level_call.result = None

(***************************************************************************)
(* C9.  For trait X and its methods m in declaration order the generator   *)
(* derives X + "AtLevel", "Iter" + X, m + "_at_level", "iter_" + m and     *)
(* "CompositeIterator" + UpperCamelCase(m); items that are not methods     *)
(* give no name, and two derivations from one input agree.                 *)
(***************************************************************************)
\* the names expected for the identifiers the inputs are drawn from
expected_level_trait(x) ==
    CASE x = n_IntOp -> <<"I", "n", "t", "O", "p", "A", "t", "L", "e", "v", "e", "l">>
      [] x = n_MyTrait -> <<"M", "y", "T", "r", "a", "i", "t", "A", "t", "L", "e", "v", "e", "l">>
expected_iter_trait(x) ==
    CASE x = n_IntOp -> <<"I", "t", "e", "r", "I", "n", "t", "O", "p">>
      [] x = n_MyTrait -> <<"I", "t", "e", "r", "M", "y", "T", "r", "a", "i", "t">>
expected_level_method(m) ==
    CASE m = n_execute_1 -> <<"e", "x", "e", "c", "u", "t", "e", "_", "1", "_", "a", "t", "_", "l", "e", "v", "e", "l">>
      [] m = n_execute_2 -> <<"e", "x", "e", "c", "u", "t", "e", "_", "2", "_", "a", "t", "_", "l", "e", "v", "e", "l">>
      [] m = n_apply -> <<"a", "p", "p", "l", "y", "_", "a", "t", "_", "l", "e", "v", "e", "l">>
      [] m = n_foo_bar -> <<"f", "o", "o", "_", "b", "a", "r", "_", "a", "t", "_", "l", "e", "v", "e", "l">>
      [] m = n_fooBar -> <<"f", "o", "o", "B", "a", "r", "_", "a", "t", "_", "l", "e", "v", "e", "l">>
      [] m = n_foobar -> <<"f", "o", "o", "b", "a", "r", "_", "a", "t", "_", "l", "e", "v", "e", "l">>
expected_iter_method(m) ==
    CASE m = n_execute_1 -> <<"i", "t", "e", "r", "_", "e", "x", "e", "c", "u", "t", "e", "_", "1">>
      [] m = n_execute_2 -> <<"i", "t", "e", "r", "_", "e", "x", "e", "c", "u", "t", "e", "_", "2">>
      [] m = n_apply -> <<"i", "t", "e", "r", "_", "a", "p", "p", "l", "y">>
      [] m = n_foo_bar -> <<"i", "t", "e", "r", "_", "f", "o", "o", "_", "b", "a", "r">>
      [] m = n_fooBar -> <<"i", "t", "e", "r", "_", "f", "o", "o", "B", "a", "r">>
      [] m = n_foobar -> <<"i", "t", "e", "r", "_", "f", "o", "o", "b", "a", "r">>
expected_composite_iter(m) ==
    CASE m = n_execute_1 -> <<"C", "o", "m", "p", "o", "s", "i", "t", "e", "I", "t", "e", "r", "a", "t", "o", "r", "E", "x", "e", "c", "u", "t", "e", "1">>
      [] m = n_execute_2 -> <<"C", "o", "m", "p", "o", "s", "i", "t", "e", "I", "t", "e", "r", "a", "t", "o", "r", "E", "x", "e", "c", "u", "t", "e", "2">>
      [] m = n_apply -> <<"C", "o", "m", "p", "o", "s", "i", "t", "e", "I", "t", "e", "r", "a", "t", "o", "r", "A", "p", "p", "l", "y">>
      [] m = n_foo_bar -> <<"C", "o", "m", "p", "o", "s", "i", "t", "e", "I", "t", "e", "r", "a", "t", "o", "r", "F", "o", "o", "B", "a", "r">>
      [] m = n_fooBar -> <<"C", "o", "m", "p", "o", "s", "i", "t", "e", "I", "t", "e", "r", "a", "t", "o", "r", "F", "o", "o", "B", "a", "r">>
      [] m = n_foobar -> <<"C", "o", "m", "p", "o", "s", "i", "t", "e", "I", "t", "e", "r", "a", "t", "o", "r", "F", "o", "o", "b", "a", "r">>

\* the positions of the trait's method items, in declaration order
RECURSIVE method_positions(_, _)
method_positions(items, k) ==
    IF k > Len(items) THEN <<>>
    ELSE (IF items[k].kind = "Method" THEN <<k>> ELSE <<>>)
         \o method_positions(items, k + 1)

C9_DerivedNames ==
    \A g \in DOMAIN emitted :
        /\ emitted[g] = emitted[1]
        /\ emitted[g].status = "ok" =>
              LET out == emitted[g]
                  pos == method_positions(trait_type.items, 1)
                  name(k) == trait_type.items[pos[k]].ident
              IN /\ out.level_trait = expected_level_trait(trait_type.ident)
                 /\ out.iter_trait = expected_iter_trait(trait_type.ident)
                 /\ Len(out.level_methods) = Len(pos)
                 /\ Len(out.iter_methods) = Len(pos)
                 /\ Len(out.composite_iters) = Len(pos)
                 /\ \A k \in DOMAIN pos :
                       /\ out.level_methods[k] = expected_level_method(name(k))
                       /\ out.iter_methods[k] = expected_iter_method(name(k))
                       /\ out.composite_iters[k] = expected_composite_iter(name(k))
                       /\ out.composite_iters[k] =
                              <<"C", "o", "m", "p", "o", "s", "i", "t", "e", "I", "t", "e", "r", "a", "t", "o", "r">> \o to_case_UpperCamel(name(k))

\* two derivations for a trait whose first item is no method and whose second is foo_bar
C9_Witness ==
    /\ Len(emitted) = 2
    /\ emitted[2].status = "ok"
    /\ Len(trait_type.items) = 2
    /\ trait_type.items[1].kind = "Type"
    /\ trait_type.items[2] = method_item(n_foo_bar)
    /\ emitted[2].composite_iters = <<<<"C", "o", "m", "p", "o", "s", "i", "t", "e", "I", "t", "e", "r", "a", "t", "o", "r", "F", "o", "o", "B", "a", "r">>>>

(***************************************************************************)
(* C10.  Name derivation rejects collisions before anything is emitted: a  *)
(* trait with two methods of one name, or with two method names that give  *)
(* one derived identifier, makes generation fail and emit nothing; when    *)
(* generation succeeds the derived per-method names are pairwise distinct. *)
(***************************************************************************)
pairwise_distinct(names) ==
    \A i, j \in DOMAIN names : i # j => names[i] # names[j]

C10_RejectsCollisions ==
    \A g \in DOMAIN emitted :
        LET idents == from_trait(trait_type)
            collide == \/ ~pairwise_distinct(idents.main_methods)
                       \/ ~pairwise_distinct(level_methods(idents))
                       \/ ~pairwise_distinct(iter_methods(idents))
                       \/ ~pairwise_distinct(composite_iters(idents))
        IN /\ collide => emitted[g].status = "error" /\ emitted[g].tokens = <<>>
           /\ emitted[g].status = "ok" =>
                 /\ pairwise_distinct(emitted[g].level_methods)
                 /\ pairwise_distinct(emitted[g].iter_methods)
                 /\ pairwise_distinct(emitted[g].composite_iters)

(***************************************************************************)
(* What the claims about the emitted declarations are stated in.           *)
(***************************************************************************)
\* the trait an emitted output reproduces: the trait the generator was given
original_of(out) == out.tokens[Len(use_decls) + 1].of

\* the receiver a method is written with
receiver_of(m) ==
    IF m.inputs # <<>> /\ m.inputs[1].kind = "Receiver" THEN m.inputs[1].form ELSE "none"

range(seq) == {seq[k] : k \in DOMAIN seq}

(***************************************************************************)
(* C11.  A method whose receiver is anything but &self (self by value,     *)
(* &mut self, no receiver) makes generation fail with a diagnostic and     *)
(* emit nothing: no output is ever emitted for a trait with such a method, *)
(* so no receiver is dropped or copied through.                            *)
(***************************************************************************)
C11_RejectsReceivers ==
    \A g \in DOMAIN emitted :
        emitted[g].status = "ok" =>
            \A m \in range(trait_methods(original_of(emitted[g]))) :
                receiver_of(m) = "&self"

\* the lifetimes a method's typed arguments name
argument_lifetimes(m) ==
    UNION {arg.ty.lifetimes : arg \in range(trait_method_inputs(m))}

\* the lifetimes a method's return type names
return_lifetimes(m) == trait_method_outputs(m).lifetimes

(***************************************************************************)
(* C12.  Generation fails when a method's return type names a lifetime     *)
(* that none of the method's arguments names: every output emitted is for  *)
(* a trait whose methods return only lifetimes reachable from their        *)
(* arguments.                                                              *)
(***************************************************************************)
C12_RejectsUnreachableLifetimes ==
    \A g \in DOMAIN emitted :
        emitted[g].status = "ok" =>
            \A m \in range(trait_methods(original_of(emitted[g]))) :
                return_lifetimes(m) \subseteq argument_lifetimes(m)

\* the identifiers an emitted output declares besides the trait it reproduces:
\* the imported names, the level and iter traits, the iterator types
declared_names(out) ==
    LET generated == {k \in DOMAIN out.tokens : k # Len(use_decls) + 1}
    IN UNION {range(out.tokens[k].of) : k \in {j \in generated : out.tokens[j].item = "use"}}
       \cup {out.tokens[k].ident :
                k \in {j \in generated : out.tokens[j].item \in {"trait", "struct"}}}

\* what the module declares when invocation g runs: its own identifiers, the
\* traits of the earlier invocations and what those invocations emitted
scope_before(g) ==
    scope \cup UNION {declared_names(emitted[h]) \cup {original_of(emitted[h]).ident} :
                        h \in {j \in DOMAIN emitted : j < g /\ emitted[j].status = "ok"}}

(***************************************************************************)
(* C13.  No emitted declaration collides with an identifier already in the *)
(* scope of the trait: when a name the generator would emit (imports       *)
(* included) exists there, also one emitted by an earlier invocation for   *)
(* another trait, generation is rejected; so every output that is emitted  *)
(* declares only names that the scope did not hold.                        *)
(***************************************************************************)
C13_RejectsScopeCollisions ==
    \A g \in DOMAIN emitted :
        emitted[g].status = "ok" =>
            declared_names(emitted[g]) \cap scope_before(g) = {}

\* the output is, after `uses` import declarations: the given trait as given,
\* the level trait and its impls for () and Node, the iter trait and its impl
\* for Composite, then per method, in method order, struct, constructor and
\* Iterator impl, and nothing else
outline(out, input, uses) ==
    LET t == out.tokens
        ms == trait_methods(input)
    IN /\ out.status = "ok"
       /\ Len(t) = uses + 6 + 3 * Len(ms)
       /\ \A k \in 1..uses : t[k].item = "use"
       /\ t[uses + 1] = [item |-> "trait", ident |-> input.ident, of |-> input]
       /\ t[uses + 2].item = "trait" /\ t[uses + 2].ident = out.level_trait
       /\ t[uses + 3].item = "impl for ()" /\ t[uses + 3].ident = out.level_trait
       /\ t[uses + 4].item = "impl for Node" /\ t[uses + 4].ident = out.level_trait
       /\ t[uses + 5].item = "trait" /\ t[uses + 5].ident = out.iter_trait
       /\ t[uses + 6].item = "impl for Composite" /\ t[uses + 6].ident = out.iter_trait
       /\ \A k \in DOMAIN ms :
             /\ t[uses + 6 + 3 * (k - 1) + 1] =
                   [item |-> "struct", ident |-> out.composite_iters[k], of |-> ms[k].ident]
             /\ t[uses + 6 + 3 * (k - 1) + 2] =
                   [item |-> "impl", ident |-> out.composite_iters[k], of |-> ms[k].ident]
             /\ t[uses + 6 + 3 * (k - 1) + 3] =
                   [item |-> "impl Iterator", ident |-> out.composite_iters[k],
                    of |-> ms[k].ident]

\* the output of the invocation a step makes
last_emitted == emitted'[Len(emitted')]

(***************************************************************************)
(* C14 as stated.  The output of every invocation is, in this order and    *)
(* with nothing before it: the original trait unchanged, the level trait   *)
(* with its impls for () and Node, the iter trait with its impl for        *)
(* Composite, and per method one iterator struct, one constructor and one  *)
(* Iterator impl.                                                          *)
(***************************************************************************)
C14_TraitFirst ==
    [][emitted' # emitted => outline(last_emitted, trait_type, 0)]_vars

(***************************************************************************)
(* C14, amended.  The output of every invocation is, in this order: two    *)
(* import declarations (Composite, NextNode, Node; PhantomData), then the  *)
(* original trait unchanged in items, generics and bounds, the level trait *)
(* with its impls for () and Node, the iter trait with its impl for        *)
(* Composite, and per method exactly one iterator struct, one constructor  *)
(* and one Iterator impl.                                                  *)
(***************************************************************************)
C14_OutputOutline ==
    [][emitted' # emitted =>
          /\ outline(last_emitted, trait_type, 2)
          /\ last_emitted.tokens[1].of = <<<<"C", "o", "m", "p", "o", "s", "i", "t", "e">>, <<"N", "e", "x", "t", "N", "o", "d", "e">>, <<"N", "o", "d", "e">>>>
          /\ last_emitted.tokens[2].of = <<<<"P", "h", "a", "n", "t", "o", "m", "D", "a", "t", "a">>>>]_vars

\* an output for the generic trait with one method and an associated type
C14_Witness ==
    \E g \in DOMAIN emitted :
        /\ emitted[g].status = "ok"
        /\ original_of(emitted[g]).generics = g_MyTrait
        /\ Len(original_of(emitted[g]).items) > Len(trait_methods(original_of(emitted[g])))
        /\ Len(trait_methods(original_of(emitted[g]))) = 1
        /\ Len(emitted[g].tokens) = 11

\* a list of tokens is a list of values: no comma comes first or after a comma
well_formed_list(toks) ==
    \A k \in DOMAIN toks :
        toks[k].kind = "Comma" => k > 1 /\ toks[k - 1].kind # "Comma"

\* the values of a list of tokens
values_of(toks) == select_kind(toks, "Comma", FALSE)

(***************************************************************************)
(* C15.  The level trait mirrors the original trait method for method: one *)
(* level method per method, in the same order, named <m>_at_level, taking  *)
(* the original receiver and arguments followed by level: usize, returning *)
(* Option of the written return type, and Option<()> with iterator item () *)
(* when no return type is written; it is declared with the original's      *)
(* generic parameters and where predicates.                                *)
(***************************************************************************)
C15_LevelTraitMirrors ==
    \A g \in DOMAIN emitted :
        emitted[g].status = "ok" =>
            LET input == original_of(emitted[g])
                ms == trait_methods(input)
                d == emitted[g].level_trait_decl
            IN /\ d.ident = input.ident \o <<"A", "t", "L", "e", "v", "e", "l">>
               /\ d.generics = input.generics.params
               /\ d.where_clause = input.generics.where_clause
               /\ Len(d.methods) = Len(ms)
               /\ \A k \in DOMAIN ms :
                     /\ d.methods[k].ident = ms[k].ident \o <<"_", "a", "t", "_", "l", "e", "v", "e", "l">>
                     /\ well_formed_list(d.methods[k].inputs)
                     /\ values_of(d.methods[k].inputs) = ms[k].inputs \o <<arg_level>>
                     /\ IF ms[k].output.kind = "Default"
                        THEN /\ d.methods[k].output = Option(ty_unit)
                             /\ emitted[g].iterators[k].iterator.item = ty_unit
                        ELSE d.methods[k].output = Option(ms[k].output.ty)

\* the elements of a sequence that are (keep) or are not (~keep) in a set, in order
RECURSIVE select_in(_, _, _)
select_in(seq, set, keep) ==
    IF seq = <<>> THEN <<>>
    ELSE (IF (Head(seq) \in set) = keep THEN <<Head(seq)>> ELSE <<>>)
         \o select_in(Tail(seq), set, keep)

\* a declaration restates the trait's parameters and predicates and adds exactly
\* the lifetime of the held reference and the node type, with the node type's bound
restates(params, where_clause, input) ==
    /\ select_in(params, range(input.generics.params), TRUE) = input.generics.params
    /\ select_in(params, range(input.generics.params), FALSE)
          = <<lifetime_param(<<"'", "z", "e", "r", "o", "_", "v">>), type_param(<<"N", "o", "d", "e", "T", "y", "p", "e">>)>>
    /\ select_in(where_clause, range(input.generics.where_clause), TRUE)
          = input.generics.where_clause
    /\ select_in(where_clause, range(input.generics.where_clause), FALSE)
          = <<predicate(<<"N", "o", "d", "e", "T", "y", "p", "e">>,
                        <<bound(<<"N", "e", "x", "t", "N", "o", "d", "e">>, <<>>),
                          bound(input.ident \o <<"A", "t", "L", "e", "v", "e", "l">>,
                                [j \in DOMAIN input.generics.params |->
                                    input.generics.params[j].ident])>>)>>

\* generic arguments name the declared parameters one by one, in their order,
\* with the anonymous lifetime for the lifetime of the held reference
names_in_order(args, params) ==
    /\ Len(args) = Len(params)
    /\ \A i \in DOMAIN params :
          args[i] = IF params[i].ident = <<"'", "z", "e", "r", "o", "_", "v">> THEN <<"'", "_">> ELSE params[i].ident

(***************************************************************************)
(* C16.  For every trait and method, the iterator struct, its constructor  *)
(* impl and its Iterator impl each declare every generic parameter,        *)
(* lifetime and where predicate of the trait plus exactly the lifetime     *)
(* 'zero_v of the held reference and NodeType; and the generic arguments   *)
(* with which the iter trait's method names the iterator type have the     *)
(* arity and the order of the struct's declared parameters.                *)
(***************************************************************************)
C16_IteratorGenerics ==
    \A g \in DOMAIN emitted :
        emitted[g].status = "ok" =>
            LET input == original_of(emitted[g])
            IN \A k \in DOMAIN emitted[g].iterators :
                  LET it == emitted[g].iterators[k]
                  IN /\ restates(it.struct.generics, it.struct.where_clause, input)
                     /\ restates(it.new.impl_generics, it.new.where_clause, input)
                     /\ restates(it.iterator.impl_generics, it.iterator.where_clause, input)
                     /\ names_in_order(emitted[g].iter_trait_decl.methods[k].output.args,
                                       it.struct.generics)
                     /\ emitted[g].iter_trait_decl.methods[k].output.ident = it.struct.ident

\* the iterator of apply of the trait MyTrait<'a, I, R> where I: Copy
C16_Witness ==
    \E g \in DOMAIN emitted :
        /\ emitted[g].status = "ok"
        /\ original_of(emitted[g]).generics = g_MyTrait
        /\ \E k \in DOMAIN emitted[g].iterators :
              /\ emitted[g].iterators[k].struct.ident = <<"C", "o", "m", "p", "o", "s", "i", "t", "e", "I", "t", "e", "r", "a", "t", "o", "r", "A", "p", "p", "l", "y">>
              /\ Len(emitted[g].iterators[k].struct.generics) = 5
              /\ Len(emitted[g].iter_trait_decl.methods[k].output.args) = 5

\* the fields a struct declares and the initialisers a constructor writes
fields_of(struct) == range(values_of(struct.fields))
inits_of(new) == {i \in range(values_of(new.init)) : i.kind = "Init"}

\* a field references a generic parameter when its type names it
references(field, param) ==
    param.ident \in field.ty.lifetimes \cup field.ty.params

(***************************************************************************)
(* C17.  On every iterator struct, each type parameter of the trait is     *)
(* declared and carried by a PhantomData marker field that the constructor *)
(* initialises, no marker carries data, and every generic parameter the    *)
(* struct declares, type or lifetime, is referenced by at least one field. *)
(***************************************************************************)
C17_MarkersCoverParams ==
    \A g \in DOMAIN emitted :
        emitted[g].status = "ok" =>
            LET input == original_of(emitted[g])
            IN \A k \in DOMAIN emitted[g].iterators :
                  LET it == emitted[g].iterators[k]
                  IN /\ \A p \in range(select_kind(input.generics.params, "type", TRUE)) :
                           /\ p \in range(it.struct.generics)
                           /\ \E f \in fields_of(it.struct) :
                                 /\ f.ty = PhantomData(p.ident)
                                 /\ f.pat.kind = "Ident"
                                 /\ field_init(f.pat.ident, <<"P", "h", "a", "n", "t", "o", "m", "D", "a", "t", "a">>) \in inits_of(it.new)
                     /\ \A p \in range(it.struct.generics) :
                           \E f \in fields_of(it.struct) : references(f, p)

\* the identifiers of generic parameters
idents_of(params) == {params[k].ident : k \in DOMAIN params}

\* the augmented function has the input's parameters and predicates followed by
\* two type parameters, node and <type_name>, and by two predicates: node is
\* bounded by NextNode and the level trait of <trait_ident>, <type_name> by the
\* iter trait of <trait_ident> over node
augmented_by(out, attr, input) ==
    LET ps == out.f.generics.params
        ws == out.f.generics.where_clause
        n == Len(input.generics.params)
        w == Len(input.generics.where_clause)
    IN /\ Len(ps) = n + 2 /\ Len(ws) = w + 2
       /\ SubSeq(ps, 1, n) = input.generics.params
       /\ SubSeq(ws, 1, w) = input.generics.where_clause
       /\ ps[n + 1].kind = "type"
       /\ ps[n + 2] = type_param(attr.type_name)
       /\ ws[w + 1].bounded = ps[n + 1].ident
       /\ Len(ws[w + 1].bounds) = 2
       /\ ws[w + 1].bounds[1].path = <<"N", "e", "x", "t", "N", "o", "d", "e">>
       /\ ws[w + 1].bounds[2].path = attr.trait_ident \o <<"A", "t", "L", "e", "v", "e", "l">>
       /\ ws[w + 2].bounded = attr.type_name
       /\ Len(ws[w + 2].bounds) = 1
       /\ ws[w + 2].bounds[1].path = <<"I", "t", "e", "r">> \o attr.trait_ident
       /\ ws[w + 2].bounds[1].args[Len(ws[w + 2].bounds[1].args)].ident = ps[n + 1].ident
       /\ [out.f EXCEPT !.generics = input.generics] = input

\* the node type parameter is none of the input's parameters and is not <type_name>
fresh_node_type(out, attr, input) ==
    LET node == out.f.generics.params[Len(input.generics.params) + 1].ident
    IN node \notin idents_of(input.generics.params) \cup {attr.type_name}

(***************************************************************************)
(* C18.  Given <trait_ident> as <type_name> and a function, the augmenter  *)
(* adds exactly two type parameters, a node type parameter that is fresh   *)
(* (none of the function's generic parameters, and not <type_name>) and    *)
(* <type_name>, and exactly two bounds: the node type by NextNode and the  *)
(* level trait of <trait_ident>, <type_name> by the iter trait of          *)
(* <trait_ident> over the node type; the trait names are the derived ones. *)
(***************************************************************************)
C18_AugmentsSignature ==
    \A g \in DOMAIN augmented :
        (fn_item.input.item = "fn" /\ fn_item.macro = "fn_generics") =>
            /\ augmented[g].status = "ok"
            /\ augmented_by(augmented[g], fn_item.attr, fn_item.input)
            /\ fresh_node_type(augmented[g], fn_item.attr, fn_item.input)

\* the list reached from a list by i steps through next
RECURSIVE nth_next(_, _)
nth_next(x, i) == IF i = 0 THEN x ELSE nth_next(x.next, i - 1)

(***************************************************************************)
(* C19.  compose!(v_0, .., v_{N-1}) is Composite::new of the list nested   *)
(* to the right: the node reached by i steps through next holds v_i, the   *)
(* first argument is the outermost node, and after N steps comes ();       *)
(* compose!() is Composite::new(()).                                       *)
(***************************************************************************)
C19_ComposeNestsRight ==
    /\ composite = Composite_new(composite.head)
    /\ \A i \in 0..(N - 1) :
          /\ nth_next(composite.head, i).tag = "Node"
          /\ nth_next(composite.head, i).data = elems[i + 1]
    /\ nth_next(composite.head, N) = Unit
    /\ N = 0 => composite = Composite_new(Unit)

\* a list of three whose first and last values differ
C19_Witness ==
    /\ N = 3
    /\ elems[1] # elems[3]
    /\ composite.head.data = elems[1]
    /\ composite.head.next.next.data = elems[3]

(***************************************************************************)
(* C20.  NextNode holds for (), and for a Node exactly when its next is a  *)
(* NextNode; nest_level is 0 for () and one more than its next's for a     *)
(* Node; so the list composed from N values and each of its tails is a     *)
(* NextNode, of depth N at the head and N - i after i steps, while a       *)
(* composed value, or a Node whose next is one, is not.                    *)
(***************************************************************************)
C20_ValidTailAndDepth ==
    /\ is_NextNode(Unit) /\ nest_level(Unit) = 0
    /\ \A i \in 0..N :
          /\ is_NextNode(nth_next(composite.head, i))
          /\ nest_level(nth_next(composite.head, i)) = N - i
    /\ \A i \in 0..(N - 1) :
          nest_level(nth_next(composite.head, i))
              = nest_level(nth_next(composite.head, i).next) + 1
    /\ \A k \in DOMAIN elems :
          /\ ~is_NextNode(elems[k])
          /\ ~is_NextNode([tag |-> "Node", data |-> elems[k], next |-> elems[k]])

\* a list of three: depth 3 at the head, 1 at its last node
C20_Witness ==
    /\ N = 3
    /\ nest_level(composite.head) = 3
    /\ nest_level(composite.head.next.next) = 1
    /\ is_NextNode(composite.head)

\* the smaller of two numbers
min(a, b) == IF a <= b THEN a ELSE b

(***************************************************************************)
(* C21 as stated.  A level-method call with index i on a list of depth N   *)
(* resolves in exactly i + 1 structural steps.                             *)
(***************************************************************************)
C21_StepsIndexPlusOne ==
    at_level_call # NoCall =>
        Len(at_level_call.steps) = at_level_call.level + 1

(***************************************************************************)
(* C21, amended.  A level-method call with index i on a list of depth N    *)
(* resolves in exactly min(i, N) + 1 structural steps: step j is entered   *)
(* on the j-th tail of the list with level i - j, the last step is on the  *)
(* matching node (i < N, the only step that invokes the method) or on ()   *)
(* (i >= N, no step invokes it), and nothing beyond the list's depth is    *)
(* visited.                                                                *)
(***************************************************************************)
C21_StepsWithinDepth ==
    at_level_call # NoCall =>
        LET i == at_level_call.level
            steps == at_level_call.steps
        IN /\ Len(steps) = min(i, N) + 1
           /\ \A j \in DOMAIN steps :
                 /\ steps[j].self = nth_next(composite.head, j - 1)
                 /\ steps[j].level = i - (j - 1)
                 /\ steps[j].invokes <=> (j = i + 1 /\ i < N)
           /\ steps[Len(steps)].self =
                 IF i < N THEN nth_next(composite.head, i) ELSE Unit

\* an index beyond the depth of a list of two: three steps, the last on ()
C21_Witness ==
    /\ at_level_call # NoCall
    /\ N = 2
    /\ at_level_call.level = 3
    /\ Len(at_level_call.steps) = 3
    /\ at_level_call.steps[3].self = Unit

\* every step of every advance of caller c
steps_of(c) ==
    UNION {range(history[c].advances[k]) : k \in DOMAIN history[c].advances}

(***************************************************************************)
(* C22.  A freshly constructed iterator has level 0, holds the arguments   *)
(* given to iter_m and a reference to the head of the list; an advance     *)
(* changes the level cursor only: the held arguments, the held reference,  *)
(* the method and the list stay as they are, so every element is invoked   *)
(* with the arguments given at construction.                               *)
(***************************************************************************)
C22_Holds ==
    \A c \in Callers :
        constructed(c) =>
            /\ history[c].advances = <<>> => iters[c].level = 0
            /\ iters[c].method = history[c].given.method
            /\ iters[c].args = history[c].given.args
            /\ deref(iters[c].parent) = composite.head
            /\ \A s \in steps_of(c) : s.args = history[c].given.args

C22_Frame ==
    /\ composite' = composite
    /\ elems' = elems
    /\ \A c \in Callers :
          constructed(c) =>
              /\ iters'[c].args = iters[c].args
              /\ iters'[c].parent = iters[c].parent
              /\ iters'[c].method = iters[c].method

C22_IteratorFrame == []C22_Holds /\ [][C22_Frame]_vars

\* an iterator of the two-argument method that has invoked two elements
C22_Witness ==
    \E c \in Callers :
        /\ constructed(c)
        /\ iters[c].method = "execute_2"
        /\ iters[c].level = 2
        /\ Len(history[c].advances) = 2
        /\ \E s \in range(history[c].advances[2]) : s.invokes

(***************************************************************************)
(* C23.  Every advance increments the level cursor by exactly one, present *)
(* or absent, so after k advances of a fresh iterator its level is k, also *)
(* for k beyond the depth of the list; the counter never overflows and     *)
(* never wraps back to a level inside the list.                            *)
(***************************************************************************)
C23_LevelCountsAdvances ==
    \A c \in Callers :
        constructed(c) =>
            /\ iters[c].pc # "panicked"
            /\ iters[c].level = Len(returned[c])

\* the values on which an advance invoked the trait's method, in order
invoked_on(steps) ==
    LET hits == select_kind([j \in DOMAIN steps |->
                                [kind |-> IF steps[j].invokes THEN "hit" ELSE "pass",
                                 self |-> steps[j].self]], "hit", TRUE)
    IN [j \in DOMAIN hits |-> hits[j].self]

(***************************************************************************)
(* C24.  Consuming the iterator of iter_m(args) invokes m exactly once on  *)
(* each element, in the order e_0 .. e_{N-1}: advance k invokes m on       *)
(* e_{k-1} and on nothing else when k <= N, and on no element when k > N;  *)
(* and a level-method call at index i invokes m on no element but e_i.     *)
(***************************************************************************)
C24_InvokesEachOnce ==
    \A c \in Callers :
        \A k \in DOMAIN history[c].advances :
            LET steps == history[c].advances[k]
            IN /\ invoked_on(steps) =
                     IF k <= N THEN <<nth_next(composite.head, k - 1)>> ELSE <<>>
               /\ \A j \in DOMAIN steps :
                     steps[j].invokes =>
                         /\ steps[1].level < N
                         /\ steps[j].self = nth_next(composite.head, steps[1].level)

\* the non-receiver parameters of a method as written
typed_params(m) == select_kind(m.inputs, "Typed", TRUE)

\* the names a constructor initialises: shorthand fields and field: value
initialised(new) ==
    {IF i.kind = "Init" THEN i.field ELSE i.ident : i \in range(values_of(new.init))}

\* a list names the parameters one by one, in order
one_per_param(list, params) ==
    /\ Len(list) = Len(params)
    /\ \A i \in DOMAIN params :
          (params[i].pat.kind = "Ident" /\ i \in DOMAIN list) =>
              list[i].ident = params[i].pat.ident

(***************************************************************************)
(* C25.  For every method the three argument lists agree position by       *)
(* position: the name-only list and the self-qualified list hold exactly   *)
(* one entry per non-receiver parameter, in order, whatever the form of    *)
(* the parameter's pattern; so each generated call passes as many          *)
(* arguments as the signature it calls declares, and every field an        *)
(* iterator struct declares is initialised by its constructor.             *)
(***************************************************************************)
C25_ArgumentListsAgree ==
    \A g \in DOMAIN emitted :
        emitted[g].status = "ok" =>
            LET input == original_of(emitted[g])
                ms == trait_methods(input)
            IN \A k \in DOMAIN ms :
                  LET it == emitted[g].iterators[k]
                      body == emitted[g].node_impl.bodies[k]
                      params == typed_params(ms[k])
                  IN /\ trait_method_inputs(ms[k]) = params
                     /\ one_per_param(trait_method_args(ms[k]), params)
                     /\ one_per_param(trait_method_self_args(ms[k]), params)
                     /\ Len(values_of(body.else_call.args)) = Len(params)
                     /\ Len(values_of(body.then_call.args)) = Len(params) + 1
                     /\ Len(values_of(it.iterator.next_call.args)) = Len(params) + 1
                     /\ Len(values_of(emitted[g].composite_impl.bodies[k].args))
                           = Len(values_of(it.new.inputs))
                     /\ \A f \in fields_of(it.struct) :
                           /\ f.pat.kind = "Ident"
                           /\ f.pat.ident \in initialised(it.new)

\* seq begins with the elements of prefix, in prefix's order
starts_with(seq, prefix) ==
    /\ Len(seq) >= Len(prefix)
    /\ SubSeq(seq, 1, Len(prefix)) = prefix

\* out is input with generic parameters and where predicates appended, two of
\* each, and nothing else touched
only_adds(out, input) ==
    /\ starts_with(out.generics.params, input.generics.params)
    /\ Len(out.generics.params) = Len(input.generics.params) + 2
    /\ starts_with(out.generics.where_clause, input.generics.where_clause)
    /\ Len(out.generics.where_clause) = Len(input.generics.where_clause) + 2
    /\ [out EXCEPT !.generics = input.generics] = input

(***************************************************************************)
(* C26.  The signature augmenter only adds: every generic parameter and    *)
(* every where predicate the function had is still present in the output,  *)
(* in the original order, with the two new parameters and the two new      *)
(* predicates after them; the function's name, parameters, return type and *)
(* body are unchanged.                                                     *)
(***************************************************************************)
C26_AugmenterOnlyAdds ==
    \A g \in DOMAIN augmented :
        augmented[g].status = "ok" => only_adds(augmented[g].f, fn_item.input)

\* the same statement for #[zero_v(fn_generics, ..)] alone, which extends the
\* where clause it finds
C26_FnGenericsOnlyAdds ==
    fn_item.macro = "fn_generics" => C26_AugmenterOnlyAdds

\* #[composed(..)] has run on a function that had a where clause
C26_ComposedDropsWhere ==
    /\ fn_item.macro = "composed"
    /\ augmented # <<>>
    /\ augmented[1].status = "ok"
    /\ fn_item.input.generics.where_clause # <<>>
    /\ ~starts_with(augmented[1].f.generics.where_clause,
                    fn_item.input.generics.where_clause)

\* the results of next() calls up to and including the first None
RECURSIVE through_first_none(_)
through_first_none(rs) ==
    IF rs = <<>> THEN <<>>
    ELSE IF Head(rs) = None THEN <<None>>
    ELSE <<Head(rs)>> \o through_first_none(Tail(rs))

\* Some(e_0.execute(x)), ..., Some(e_{N-1}.execute(x)), None
values_then_none(x) ==
    [k \in 1..(N + 1) |->
        IF k <= N THEN Some(elem_result(k - 1, "execute_1", <<x>>)) ELSE None]

nest_constructed(c) == nest_iters[c].pc # "none"

(***************************************************************************)
(* C27.  The nest-level scheme (cursor from the head's nest level N down,  *)
(* a node executes when the level asked for is its own nest level) and the *)
(* level-0 scheme (cursor from 0 up, a node executes at level 0 and hands  *)
(* level - 1 to its next) give the same sequence for every list and input: *)
(* e_0.execute(x), ..., e_{N-1}.execute(x) in composition order, then      *)
(* None.                                                                   *)
(***************************************************************************)
C27_SchemesAgree ==
    \A c \in Callers :
        nest_constructed(c) =>
            LET x == nest_iters[c].input
                nest == through_first_none(nest_returned[c])
            IN /\ is_prefix(nest, values_then_none(x))
               /\ (constructed(c) /\ iters[c].method = "execute_1" /\ iters[c].args = <<x>>) =>
                      LET zero == through_first_none(returned[c])
                      IN /\ is_prefix(zero, values_then_none(x))
                         /\ \A k \in 1..min(Len(nest), Len(zero)) : nest[k] = zero[k]

\* both schemes have run to their first None on a list of two or more values
C27_Witness ==
    \E c \in Callers :
        /\ N >= 2
        /\ nest_constructed(c) /\ constructed(c)
        /\ iters[c].args = <<nest_iters[c].input>>
        /\ has_none(nest_returned[c]) /\ has_none(returned[c])
        /\ through_first_none(nest_returned[c]) = through_first_none(returned[c])
        /\ Len(through_first_none(returned[c])) = N + 1

(***************************************************************************)
(* C28.  The cursor of the nest-level iterator never underflows and stays  *)
(* in 0 .. N: it starts at N, goes down by one per next() call while it is *)
(* above 0, is 0 after N calls and stays 0, and every call after the N-th  *)
(* returns None; on the empty list it starts at 0 and the first call       *)
(* returns None.                                                           *)
(***************************************************************************)
C28_CursorInRange ==
    \A c \in Callers :
        nest_constructed(c) =>
            LET k == Len(nest_returned[c])
            IN /\ nest_iters[c].pc = "idle"
               /\ nest_iters[c].level \in 0..N
               /\ nest_iters[c].level = IF k <= N THEN N - k ELSE 0
               /\ \A j \in 1..k : j > N => nest_returned[c][j] = None

\* next() has been called more than once after the cursor reached 0
C28_Witness ==
    \E c \in Callers :
        /\ N >= 2
        /\ nest_constructed(c)
        /\ Len(nest_returned[c]) >= N + 2
        /\ nest_iters[c].level = 0

====
